---- MODULE Spec2Model ----
(***************************************************************************)
(* Model of the PDF summarization pipeline: the word-safe chunker, the     *)
(* hierarchical summarizer built on it (chunk calls, reduce pass, short    *)
(* summary derivation) and the document lifecycle that records every       *)
(* attempt in the store.                                                   *)
(*                                                                         *)
(* Strings are sequences of symbols.  Document text is a sequence of       *)
(* single characters.  max_chars is scaled from 100000 down to MaxChars,   *)
(* and every string literal of the source (a prompt, the "[Part i]" label, *)
(* the lead-in sentence, an error prefix) is one symbol of length 1, so    *)
(* that literals stay short relative to max_chars as they are in the       *)
(* program; the newlines that follow a literal are symbols of their own.   *)
(*                                                                         *)
(* Three specifications share the variables: SpecChunk calls the chunker   *)
(* on every short text, SpecSumm calls create_summaries on every short     *)
(* document, SpecLife runs the handlers of app.py over files and store.    *)
(***************************************************************************)
EXTENDS Integers, Sequences, FiniteSets, TLC

VARIABLES ck, provider, replies, cs, sm, calls, files, store, life

vars == <<ck, provider, replies, cs, sm, calls, files, store, life>>

----------------------------------------------------------------------------
(* Bounds *)

\* longest text handed to the chunker harness
MaxLen == 6
\* largest max_chars argument handed to the chunker harness
MaxCharsArg == 4

\* max_chars used by summarize (100000 in the source, scaled)
MaxChars == 4

----------------------------------------------------------------------------
(* Strings *)

Letters == {"a", "b"}
Whitespace == {" ", "\n"}
Alphabet == Letters \cup Whitespace

RECURSIVE SeqsUpTo(_, _)
SeqsUpTo(S, n) ==
    IF n = 0 THEN {<<>>}
    ELSE LET shorter == SeqsUpTo(S, n - 1)
         IN  shorter \cup {Append(s, c) : s \in {t \in shorter : Len(t) = n - 1}, c \in S}

Texts == SeqsUpTo(Alphabet, MaxLen)

IsSpace(c) == c \in Whitespace

\* str.split() with no argument: the maximal runs of non-whitespace, in order
RECURSIVE SplitFrom(_, _, _, _)
SplitFrom(text, k, word, words) ==
    IF k > Len(text)
    THEN IF word = <<>> THEN words ELSE Append(words, word)
    ELSE IF IsSpace(text[k])
         THEN SplitFrom(text, k + 1, <<>>, IF word = <<>> THEN words ELSE Append(words, word))
         ELSE SplitFrom(text, k + 1, Append(word, text[k]), words)

Split(text) == SplitFrom(text, 1, <<>>, <<>>)

\* sep.join(parts)
RECURSIVE JoinWith(_, _)
JoinWith(sep, parts) ==
    IF parts = <<>> THEN <<>>
    ELSE IF Len(parts) = 1 THEN parts[1]
    ELSE parts[1] \o sep \o JoinWith(sep, Tail(parts))

RECURSIVE Flatten(_)
Flatten(ss) == IF ss = <<>> THEN <<>> ELSE Head(ss) \o Flatten(Tail(ss))

----------------------------------------------------------------------------
(* Summarizer._chunk_text *)

\* the for loop over words and the trailing flush
RECURSIVE ChunkLoop(_, _, _, _, _, _)
ChunkLoop(words, k, max_chars, chunks, current_chunk, current_length) ==
    IF k > Len(words)
    THEN IF current_chunk # <<>>
         THEN Append(chunks, JoinWith(<<" ">>, current_chunk))
         ELSE chunks
    ELSE LET word == words[k]
             word_length == Len(word) + 1
         IN  IF current_length + word_length > max_chars
             THEN ChunkLoop(words, k + 1, max_chars,
                            Append(chunks, JoinWith(<<" ">>, current_chunk)),
                            <<word>>, word_length)
             ELSE ChunkLoop(words, k + 1, max_chars, chunks,
                            Append(current_chunk, word),
                            current_length + word_length)

\* mutant: the fast path is missing, short text is split and re-joined too
chunk_text_nofast(text, max_chars) ==
    ChunkLoop(Split(text), 1, max_chars, <<>>, <<>>, 0)

\* mutant loop: the word that overflows the chunk is dropped instead of
\* opening the next chunk
RECURSIVE ChunkLoopDrop(_, _, _, _, _, _)
ChunkLoopDrop(words, k, max_chars, chunks, current_chunk, current_length) ==
    IF k > Len(words)
    THEN IF current_chunk # <<>>
         THEN Append(chunks, JoinWith(<<" ">>, current_chunk))
         ELSE chunks
    ELSE LET word == words[k]
             word_length == Len(word) + 1
         IN  IF current_length + word_length > max_chars
             THEN ChunkLoopDrop(words, k + 1, max_chars,
                                Append(chunks, JoinWith(<<" ">>, current_chunk)),
                                <<>>, 0)
             ELSE ChunkLoopDrop(words, k + 1, max_chars, chunks,
                                Append(current_chunk, word),
                                current_length + word_length)

chunk_text_drop(text, max_chars) ==
    IF Len(text) <= max_chars
    THEN <<text>>
    ELSE ChunkLoopDrop(Split(text), 1, max_chars, <<>>, <<>>, 0)

\* mutant loop: the joining space is not counted in word_length
RECURSIVE ChunkLoopNoSpace(_, _, _, _, _, _)
ChunkLoopNoSpace(words, k, max_chars, chunks, current_chunk, current_length) ==
    IF k > Len(words)
    THEN IF current_chunk # <<>>
         THEN Append(chunks, JoinWith(<<" ">>, current_chunk))
         ELSE chunks
    ELSE LET word == words[k]
             word_length == Len(word)
         IN  IF current_length + word_length > max_chars
             THEN ChunkLoopNoSpace(words, k + 1, max_chars,
                                   Append(chunks, JoinWith(<<" ">>, current_chunk)),
                                   <<word>>, word_length)
             ELSE ChunkLoopNoSpace(words, k + 1, max_chars, chunks,
                                   Append(current_chunk, word),
                                   current_length + word_length)

chunk_text_nospace(text, max_chars) ==
    IF Len(text) <= max_chars
    THEN <<text>>
    ELSE ChunkLoopNoSpace(Split(text), 1, max_chars, <<>>, <<>>, 0)

\* mutant loop: every word opens a chunk of its own
RECURSIVE ChunkLoopEach(_, _, _, _, _, _)
ChunkLoopEach(words, k, max_chars, chunks, current_chunk, current_length) ==
    IF k > Len(words)
    THEN IF current_chunk # <<>>
         THEN Append(chunks, JoinWith(<<" ">>, current_chunk))
         ELSE chunks
    ELSE ChunkLoopEach(words, k + 1, max_chars,
                       Append(chunks, JoinWith(<<" ">>, current_chunk)),
                       <<words[k]>>, Len(words[k]) + 1)

chunk_text_each(text, max_chars) ==
    IF Len(text) <= max_chars
    THEN <<text>>
    ELSE ChunkLoopEach(Split(text), 1, max_chars, <<>>, <<>>, 0)

chunk_text(text, max_chars) ==
    IF Len(text) <= max_chars
    THEN <<text>>
    ELSE ChunkLoop(Split(text), 1, max_chars, <<>>, <<>>, 0)

\* an Attempt Record before any field is set
NoResult == [url |-> "", filename |-> "", long_summary |-> <<>>, short_summary |-> <<>>,
             status |-> "pending", error_message |-> <<>>, created_at |-> 0]

\* the dictionary download_pdf_file starts from
NoDownload == [url |-> "", filename |-> "", extracted_text |-> <<>>,
               download_status |-> "pending", download_error |-> <<>>,
               summary_status |-> "pending", long_summary |-> <<>>,
               short_summary |-> <<>>, summary_error |-> <<>>]

\* the lifecycle when no handler is running
LifeIdle == [op |-> "idle", queue |-> <<>>, skipped_count |-> 0, result |-> NoResult,
             existing_url |-> "", stage |-> "none", inserted |-> FALSE,
             ops |-> 0, clock |-> 1,
             handler |-> "none", had_file |-> FALSE, skip_existing |-> FALSE,
             before |-> 0, did |-> {}, text |-> <<>>, download |-> NoDownload,
             file_results |-> <<>>, stop_processing |-> FALSE, idx |-> 0,
             downloaded |-> "none", stop_at_start |-> FALSE]

\* the chunker harness when it is not in use
CkIdle == [pc |-> "idle", text |-> <<>>, max_chars |-> 1, chunks |-> <<>>]

----------------------------------------------------------------------------
(* Provider client: _summarize_with_claude / _openai / _openrouter *)

Providers == {"claude", "openai", "openrouter"}

\* summaries a backend may return; replies holds those of the backend in use
Replies == {<<"s">>, <<"t", " ", "t">>}

\* str(e) of the exception a backend call may raise
Causes == {<<"timeout">>}

ErrorPrefix(p) ==
    IF p = "claude" THEN "Claude API error: "
    ELSE IF p = "openrouter" THEN "OpenRouter API error: "
    ELSE "OpenAI API error: "

\* the (success, summary, error_message) triples one backend call can return
ProviderResults(p) ==
    {[success |-> TRUE, summary |-> r, error |-> <<>>] : r \in replies}
    \cup {[success |-> FALSE, summary |-> <<>>, error |-> <<ErrorPrefix(p)>> \o c] : c \in Causes}

\* one entry of the log of backend calls
Call(phase, kind, i, text, prompt, result) ==
    [phase |-> phase, kind |-> kind, i |-> i, text |-> text, prompt |-> prompt,
     success |-> result.success, summary |-> result.summary, error |-> result.error]

----------------------------------------------------------------------------
(* Summarizer.summarize *)

LongPrompt == <<"long_prompt">>
ShortPrompt == <<"short_prompt">>

\* mutant: the prompt of a chunk call carries no part annotation
chunk_prompt_unannotated(prompt, i, n) == prompt

chunk_prompt(prompt, i, n) ==
    prompt \o <<"\n", "\n", "(This is part ", ToString(i), " of ", ToString(n), " of the document)">>

final_prompt(prompt) ==
    prompt \o <<"\n", "\n", "Please create a final consolidated summary from these partial summaries:">>

\* f"[Part {i}]\n{summary}"
PartLabel(i) == "[Part " \o ToString(i) \o "]"
LabelledSummary(i, summary) == <<PartLabel(i), "\n">> \o summary

combined_summary(summaries) == JoinWith(<<"\n", "\n">>, summaries)

\* mutant: the chunk index is zero-based in the error text
ChunkError_zero_based(i, error) == <<"Error in chunk ", ToString(i - 1), ": ">> \o error

\* mutant: the backend's own error text is dropped from the chunk error
ChunkError_no_cause(i, error) == <<"Error in chunk ", ToString(i)>>

ChunkError(i, error) == <<"Error in chunk ", ToString(i), ": ">> \o error

\* mutant: the reduce pass starts one chunk later
NeedsReduce_off_by_one(chunks) == Len(chunks) > 4

\* mutant: every multi-chunk text gets a reduce pass
NeedsReduce_from_two(chunks) == Len(chunks) >= 2

NeedsReduce(chunks) == Len(chunks) > 3

SmIdle == [pc |-> "idle", text |-> <<>>, prompt |-> <<>>, chunks |-> <<>>, i |-> 0,
           summaries |-> <<>>, base |-> 0,
           ret |-> [success |-> FALSE, summary |-> <<>>, error |-> <<>>]]

\* the code after the for loop: reduce pass or return of the concatenation
summarize_after_loop(s) ==
    IF NeedsReduce(s.chunks)
    THEN [s EXCEPT !.pc = "reduce"]
    ELSE [s EXCEPT !.pc = "ret",
                   !.ret = [success |-> TRUE, summary |-> combined_summary(s.summaries),
                            error |-> <<>>]]

\* mutant: a single chunk goes through the chunk loop like any other
summarize_enter_always_loop(text, prompt, base) ==
    LET chunks == chunk_text(text, MaxChars)
        s == [SmIdle EXCEPT !.text = text, !.prompt = prompt, !.chunks = chunks,
                            !.i = 1, !.base = base]
    IN  IF Len(chunks) = 0 THEN summarize_after_loop(s)
        ELSE [s EXCEPT !.pc = "loop"]

\* entry of summarize: chunk the text and pick the branch
summarize_enter(text, prompt, base) ==
    LET chunks == chunk_text(text, MaxChars)
        s == [SmIdle EXCEPT !.text = text, !.prompt = prompt, !.chunks = chunks,
                            !.i = 1, !.base = base]
    IN  IF Len(chunks) = 1 THEN [s EXCEPT !.pc = "single"]
        ELSE IF Len(chunks) = 0 THEN summarize_after_loop(s)
        ELSE [s EXCEPT !.pc = "loop"]

\* one iteration of the for loop, given what the backend returned
summarize_chunk_step(s, result) ==
    IF ~result.success
    THEN [s EXCEPT !.pc = "ret",
                   !.ret = [success |-> FALSE, summary |-> <<>>,
                            error |-> ChunkError(s.i, result.error)]]
    ELSE LET t == [s EXCEPT !.summaries = Append(@, LabelledSummary(s.i, result.summary)),
                            !.i = @ + 1]
         IN  IF s.i = Len(s.chunks) THEN summarize_after_loop(t) ELSE t

\* single chunk: the backend is called with the original text and prompt
SummarizeSingle ==
    /\ sm.pc = "single"
    /\ \E result \in ProviderResults(provider) :
          /\ calls' = Append(calls, Call(cs.pc, "single", 0, sm.text, sm.prompt, result))
          /\ sm' = [sm EXCEPT !.pc = "ret", !.ret = result]
    /\ UNCHANGED <<ck, provider, replies, cs, files, store, life>>

\* chunk i of N: the backend is called with the chunk and the annotated prompt
SummarizeChunk ==
    /\ sm.pc = "loop"
    /\ \E result \in ProviderResults(provider) :
          /\ calls' = Append(calls, Call(cs.pc, "chunk", sm.i, sm.chunks[sm.i],
                                         chunk_prompt(sm.prompt, sm.i, Len(sm.chunks)), result))
          /\ sm' = summarize_chunk_step(sm, result)
    /\ UNCHANGED <<ck, provider, replies, cs, files, store, life>>

\* reduce pass: one backend call over the concatenated part summaries
SummarizeReduce ==
    /\ sm.pc = "reduce"
    /\ \E result \in ProviderResults(provider) :
          /\ calls' = Append(calls, Call(cs.pc, "reduce", 0, combined_summary(sm.summaries),
                                         final_prompt(sm.prompt), result))
          /\ sm' = [sm EXCEPT !.pc = "ret", !.ret = result]
    /\ UNCHANGED <<ck, provider, replies, cs, files, store, life>>

----------------------------------------------------------------------------
(* Summarizer.create_summaries *)

LeadIn == <<"Here is a detailed summary of a document. Please generate a very concise short summary based on this:", "\n", "\n">>

CsIdle == [pc |-> "idle", text |-> <<>>, long_ret |-> SmIdle.ret, sleeps |-> 0,
           short_summary_context |-> <<>>,
           ret |-> [success |-> FALSE, long_summary |-> <<>>, short_summary |-> <<>>,
                    error |-> <<>>]]

\* entry of create_summaries: the long summary is requested first
create_summaries_enter(text) == [CsIdle EXCEPT !.pc = "long", !.text = text]

\* mutant: the short step runs even though the long step failed
create_summaries_after_long_no_check(c, r) ==
    [c EXCEPT !.pc = "short", !.long_ret = r, !.sleeps = @ + 1,
              !.short_summary_context = LeadIn \o r.summary]

\* mutant: the short step is fed the document text again
create_summaries_after_long_raw_text(c, r) ==
    IF ~r.success
    THEN [c EXCEPT !.pc = "done", !.long_ret = r,
                   !.ret = [success |-> FALSE, long_summary |-> <<>>, short_summary |-> <<>>,
                            error |-> <<"Long summary error: ">> \o r.error]]
    ELSE [c EXCEPT !.pc = "short", !.long_ret = r, !.sleeps = @ + 1,
                   !.short_summary_context = LeadIn \o c.text]

\* lines 288-297: the long step has returned r
create_summaries_after_long(c, r) ==
    IF ~r.success
    THEN [c EXCEPT !.pc = "done", !.long_ret = r,
                   !.ret = [success |-> FALSE, long_summary |-> <<>>, short_summary |-> <<>>,
                            error |-> <<"Long summary error: ">> \o r.error]]
    ELSE [c EXCEPT !.pc = "short", !.long_ret = r, !.sleeps = @ + 1,
                   !.short_summary_context = LeadIn \o r.summary]

\* mutant: the long summary is thrown away when the short step fails
create_summaries_after_short_discard(c, r) ==
    IF ~r.success
    THEN [c EXCEPT !.pc = "done",
                   !.ret = [success |-> FALSE, long_summary |-> <<>>,
                            short_summary |-> <<>>,
                            error |-> <<"Short summary error: ">> \o r.error]]
    ELSE [c EXCEPT !.pc = "done",
                   !.ret = [success |-> TRUE, long_summary |-> c.long_ret.summary,
                            short_summary |-> r.summary, error |-> <<>>]]

\* lines 298-304: the short step has returned r
create_summaries_after_short(c, r) ==
    IF ~r.success
    THEN [c EXCEPT !.pc = "done",
                   !.ret = [success |-> FALSE, long_summary |-> c.long_ret.summary,
                            short_summary |-> <<>>,
                            error |-> <<"Short summary error: ">> \o r.error]]
    ELSE [c EXCEPT !.pc = "done",
                   !.ret = [success |-> TRUE, long_summary |-> c.long_ret.summary,
                            short_summary |-> r.summary, error |-> <<>>]]

\* summarize(text, long_prompt) has returned
CreateSummariesAfterLong ==
    /\ cs.pc = "long"
    /\ sm.pc = "ret"
    /\ LET c == create_summaries_after_long(cs, sm.ret)
       IN  /\ cs' = c
           /\ sm' = IF c.pc = "short"
                    THEN summarize_enter(c.short_summary_context, ShortPrompt, Len(calls))
                    ELSE SmIdle
    /\ UNCHANGED <<ck, provider, replies, calls, files, store, life>>

\* summarize(short_summary_context, short_prompt) has returned
CreateSummariesAfterShort ==
    /\ cs.pc = "short"
    /\ sm.pc = "ret"
    /\ cs' = create_summaries_after_short(cs, sm.ret)
    /\ sm' = SmIdle
    /\ UNCHANGED <<ck, provider, replies, calls, files, store, life>>

SummarizerStep ==
    \/ SummarizeSingle
    \/ SummarizeChunk
    \/ SummarizeReduce
    \/ CreateSummariesAfterLong
    \/ CreateSummariesAfterShort

----------------------------------------------------------------------------
(* Summarizer harness: one call of create_summaries on an arbitrary text *)

\* longest document handed to create_summaries by the harness
MaxDocLen == 9

Docs == SeqsUpTo({"a", " "}, MaxDocLen)

\* The backend in use only changes the prefix of the error text; this
\* harness runs on one backend with every reply, SpecProv below runs on
\* every backend with one reply.
InitSumm ==
    /\ ck = CkIdle
    /\ provider = "claude"
    /\ replies = Replies
    /\ \E text \in Docs :
          /\ cs = create_summaries_enter(text)
          /\ sm = summarize_enter(text, LongPrompt, 0)
    /\ calls = <<>>
    /\ files = <<>>
    /\ store = <<>>
    /\ life = LifeIdle

NextSumm == SummarizerStep

SpecSumm == InitSumm /\ [][NextSumm]_vars

\* one call of create_summaries on an arbitrary text, on each backend
InitProv ==
    /\ ck = CkIdle
    /\ provider \in Providers
    /\ replies = {<<"s">>}
    /\ \E text \in Docs :
          /\ cs = create_summaries_enter(text)
          /\ sm = summarize_enter(text, LongPrompt, 0)
    /\ calls = <<>>
    /\ files = <<>>
    /\ store = <<>>
    /\ life = LifeIdle

NextProv == SummarizerStep

SpecProv == InitProv /\ [][NextProv]_vars

----------------------------------------------------------------------------
(* Chunker harness: one call of _chunk_text on an arbitrary text *)

ChunkText ==
    /\ ck.pc = "call"
    /\ ck' = [ck EXCEPT !.pc = "done", !.chunks = chunk_text(ck.text, ck.max_chars)]
    /\ UNCHANGED <<provider, replies, cs, sm, calls, files, store, life>>

InitChunk ==
    /\ ck \in [pc : {"call"}, text : Texts, max_chars : 1..MaxCharsArg, chunks : {<<>>}]
    /\ provider = "claude"
    /\ replies = Replies
    /\ cs = CsIdle
    /\ sm = SmIdle
    /\ calls = <<>>
    /\ files = <<>>
    /\ store = <<>>
    /\ life = LifeIdle

NextChunk == ChunkText

SpecChunk == InitChunk /\ [][NextChunk]_vars

----------------------------------------------------------------------------
\* C1: a text no longer than max_chars comes back as the one-element
\* sequence holding the text itself, whitespace untouched.
C1_ShortTextIsOneChunk ==
    (ck.pc = "done" /\ Len(ck.text) <= ck.max_chars) => ck.chunks = <<ck.text>>

C1_Witness ==
    /\ ck.pc = "done"
    /\ Len(ck.text) <= ck.max_chars
    /\ ck.text # JoinWith(<<" ">>, Split(ck.text))
    /\ ck.chunks = <<ck.text>>

\* the whitespace-delimited tokens of all chunks, in chunk order
ChunkTokens(chunks) == Flatten([j \in 1..Len(chunks) |-> Split(chunks[j])])

\* C2: for a text longer than max_chars, splitting every chunk on whitespace
\* and concatenating the token lists in chunk order gives exactly the token
\* sequence of the text (nothing dropped, duplicated, reordered or cut).
C2_ChunksKeepTokenSequence ==
    (ck.pc = "done" /\ Len(ck.text) > ck.max_chars)
        => ChunkTokens(ck.chunks) = Split(ck.text)

C2_Witness ==
    /\ ck.pc = "done"
    /\ Len(ck.text) > ck.max_chars
    /\ Len(ck.chunks) >= 2
    /\ \A j \in 1..Len(ck.chunks) : ck.chunks[j] # <<>>
    /\ Len(Split(ck.text)) > Len(ck.chunks)
    /\ ck.text # JoinWith(<<" ">>, Split(ck.text))
    /\ ChunkTokens(ck.chunks) = Split(ck.text)

\* C3: for a text longer than max_chars, every chunk is at most max_chars
\* long, except a chunk made of one single token that is itself longer
\* than max_chars.
C3_ChunkLengthBound ==
    (ck.pc = "done" /\ Len(ck.text) > ck.max_chars)
        => \A j \in 1..Len(ck.chunks) :
              \/ Len(ck.chunks[j]) <= ck.max_chars
              \/ /\ Len(Split(ck.chunks[j])) = 1
                 /\ Split(ck.chunks[j])[1] = ck.chunks[j]

C3_Witness ==
    /\ ck.pc = "done"
    /\ Len(ck.text) > ck.max_chars
    /\ \E j \in 1..Len(ck.chunks) : Len(ck.chunks[j]) > ck.max_chars
    /\ \E j \in 1..Len(ck.chunks) : /\ ck.chunks[j] # <<>>
                                    /\ Len(ck.chunks[j]) < ck.max_chars

\* C4 as stated: an input of length 1.5 * max_chars gives exactly 2 chunks
\* and no token is split between them.
C4_Original_ExactlyTwoChunks ==
    (ck.pc = "done" /\ 2 * Len(ck.text) = 3 * ck.max_chars)
        => /\ Len(ck.chunks) = 2
           /\ ChunkTokens(ck.chunks) = Split(ck.text)

\* C4 amended: an input of length 1.5 * max_chars gives at most 3 chunks
\* and no token is split between them.
C4_AtMostThreeChunks ==
    (ck.pc = "done" /\ 2 * Len(ck.text) = 3 * ck.max_chars)
        => /\ Len(ck.chunks) <= 3
           /\ ChunkTokens(ck.chunks) = Split(ck.text)

C4_Witness ==
    /\ ck.pc = "done"
    /\ 2 * Len(ck.text) = 3 * ck.max_chars
    /\ Len(ck.chunks) = 3
    /\ \A j \in 1..3 : ck.chunks[j] # <<>>

----------------------------------------------------------------------------
(* Local files, download and extraction: PDFProcessor *)

\* document attempts started in one session of the lifecycle
MaxOps == 2

\* URLs entered for one run of the download phase
MaxUrls == 2

Urls == {"http://host/a.pdf", "http://host/b.pdf"}

\* the URL list of the form: one stripped, non-empty line per URL
UrlLists == SeqsUpTo(Urls, MaxUrls) \ {<<>>}

\* get_expected_filename: the basename of the URL path
get_expected_filename(url) == IF url = "http://host/a.pdf" THEN "a.pdf" ELSE "b.pdf"

\* mutant: the existence check looks into the wrong folder and finds nothing
file_exists_never(fs, filename) == FALSE

\* file_exists: is there a file of that name in the download folder
file_exists(fs, filename) == filename \in DOMAIN fs

\* what a stored file holds: the text pdfplumber finds in it, or nothing readable
Unreadable == [readable |-> FALSE, text |-> <<>>]
FileContents ==
    {[readable |-> TRUE, text |-> t] :
        t \in {<<"a", "a", " ", "a", " ", "a", "a", " ", "a">>, <<" ">>}}
    \cup {Unreadable}

\* extract_text_and_tables on a file with the given content
extract_text_and_tables(content) ==
    IF ~content.readable
    THEN [success |-> FALSE, text |-> <<>>, error |-> <<"PDF extraction error: ", "cause">>]
    ELSE IF Split(content.text) = <<>>
    THEN [success |-> FALSE, text |-> <<>>, error |-> <<"No text content extracted from PDF">>]
    ELSE [success |-> TRUE, text |-> content.text, error |-> <<>>]

\* what one call of download_pdf can do: write the file and succeed, fail
\* before the file is opened, or fail while the body is being written
DownloadOutcomes ==
    {[success |-> TRUE, wrote |-> TRUE, content |-> c, error |-> <<>>] : c \in FileContents}
    \cup {[success |-> FALSE, wrote |-> FALSE, content |-> Unreadable,
           error |-> <<"Download timeout (30 seconds exceeded)">>],
          [success |-> FALSE, wrote |-> TRUE, content |-> Unreadable,
           error |-> <<"Download error: ", "cause">>]}

\* the download folder after download_pdf(url) with outcome d
FilesAfterDownload(fs, url, d) ==
    IF d.wrote
    THEN [f \in DOMAIN fs \cup {get_expected_filename(url)} |->
             IF f = get_expected_filename(url) THEN d.content ELSE fs[f]]
    ELSE fs

\* process_pdf: download, then extract; (success, filename, text, error)
process_pdf(url, d) ==
    IF ~d.success
    THEN [success |-> FALSE, filename |-> "", text |-> <<>>, error |-> d.error]
    ELSE LET e == extract_text_and_tables(d.content)
         IN  IF ~e.success
             THEN [success |-> FALSE, filename |-> get_expected_filename(url),
                   text |-> <<>>, error |-> e.error]
             ELSE [success |-> TRUE, filename |-> get_expected_filename(url),
                   text |-> e.text, error |-> <<>>]

\* how the call of download_pdf ended
Downloaded(d) == IF d.success THEN "success" ELSE "failed"

\* the collaborators process_pdf(url) invokes when the download has outcome d
ProcessPdfDid(d) == IF d.success THEN {"download", "extract"} ELSE {"download"}

----------------------------------------------------------------------------
(* Attempt store: SummaryDatabase *)

\* mutant: the record of the same file is replaced instead of a new one added
insert_summary_upsert(st, data, now, db_ok) ==
    IF ~db_ok THEN st
    ELSE IF \E j \in 1..Len(st) : st[j].filename = data.filename
    THEN [j \in 1..Len(st) |-> IF st[j].filename = data.filename
                               THEN [data EXCEPT !.created_at = now] ELSE st[j]]
    ELSE Append(st, [data EXCEPT !.created_at = now])

\* insert_summary: the record is stamped and appended, or the insert fails
\* and nothing is stored
insert_summary(st, data, now, db_ok) ==
    IF db_ok THEN Append(st, [data EXCEPT !.created_at = now]) ELSE st

HasSummary(st, filename) == \E j \in 1..Len(st) : st[j].filename = filename

\* the value a query returns when no row matches
None == [none |-> TRUE]

\* order("created_at", desc): the rows, newest first
RECURSIVE OrderByCreatedAt(_, _)
OrderByCreatedAt(rows, desc) ==
    IF rows = <<>> THEN <<>>
    ELSE LET first == CHOOSE j \in 1..Len(rows) :
                         \A k \in 1..Len(rows) :
                             IF desc THEN rows[k].created_at <= rows[j].created_at
                             ELSE rows[j].created_at <= rows[k].created_at
             rest == [k \in 1..(Len(rows) - 1) |-> IF k < first THEN rows[k] ELSE rows[k + 1]]
         IN  <<rows[first]>> \o OrderByCreatedAt(rest, desc)

\* mutant: the rows are ordered oldest first
get_summary_by_filename_oldest(st, filename) ==
    LET data == OrderByCreatedAt(SelectSeq(st, LAMBDA r : r.filename = filename), FALSE)
    IN  IF data # <<>> THEN data[1] ELSE None

\* get_summary_by_filename: eq filename, order created_at desc, limit 1
get_summary_by_filename(st, filename) ==
    LET data == OrderByCreatedAt(SelectSeq(st, LAMBDA r : r.filename = filename), TRUE)
    IN  IF data # <<>> THEN data[1] ELSE None

----------------------------------------------------------------------------
(* Lifecycle handlers of app.py *)

\* the three fields every failure branch writes
Failed(result, error) ==
    [result EXCEPT !.status = "failed", !.error_message = error,
                   !.long_summary = <<"FAILED: ">> \o error,
                   !.short_summary = <<"FAILED: ">> \o error]

\* mutant: the handler goes on whatever the step before returned
Proceeds_always(p) == TRUE

\* "if not success: ... return" after download or extraction: the handler
\* goes on to summarization only when the step before succeeded
Proceeds(p) == p.success

\* a handler starts an attempt on one document: what the attempt does is
\* kept for inspection
Started(l, handler, had_file, skip_existing, st) ==
    [l EXCEPT !.handler = handler, !.had_file = had_file, !.skip_existing = skip_existing,
              !.before = Len(st), !.did = {}, !.text = <<>>, !.download = NoDownload,
              !.result = NoResult, !.existing_url = "", !.inserted = FALSE,
              !.downloaded = "none", !.stop_at_start = l.stop_processing]

\* a handler has returned: what it did is kept for inspection
Returned(l, stage, result, db_ok) ==
    [l EXCEPT !.op = "idle", !.stage = stage, !.result = result, !.inserted = db_ok,
              !.clock = IF db_ok THEN @ + 1 ELSE @]

\* download_pdf_file(url, pdf_processor, skip_existing): the returned
\* dictionary, the folder afterwards and the collaborators invoked;
\* bound tells whether pdf_processor is an object or None
download_pdf_file(fs, url, bound, skip_existing, d) ==
    LET result == [NoDownload EXCEPT !.url = url]
        expected_filename == get_expected_filename(url)
        exists == file_exists(fs, expected_filename)
    IN  IF ~bound
        THEN [files |-> fs, did |-> {}, downloaded |-> "none",
              result |-> [result EXCEPT !.download_status = "failed",
                                        !.download_error = <<"Unexpected error: ", "cause">>]]
        ELSE IF exists /\ skip_existing
        THEN LET e == extract_text_and_tables(fs[expected_filename])
             IN  [files |-> fs, did |-> {"extract"}, downloaded |-> "none",
                  result |-> IF e.success
                             THEN [result EXCEPT !.filename = expected_filename,
                                                 !.download_status = "skipped",
                                                 !.extracted_text = e.text]
                             ELSE [result EXCEPT !.filename = expected_filename,
                                                 !.download_status = "failed",
                                                 !.download_error =
                                                     <<"Text extraction failed: ">> \o e.error]]
        ELSE LET p == IF exists
                      THEN LET e == extract_text_and_tables(fs[expected_filename])
                           IN  [success |-> e.success, filename |-> expected_filename,
                                text |-> e.text, error |-> e.error]
                      ELSE process_pdf(url, d)
             IN  [files |-> IF exists THEN fs ELSE FilesAfterDownload(fs, url, d),
                  did |-> IF exists THEN {"extract"} ELSE ProcessPdfDid(d),
                  downloaded |-> IF exists THEN "none" ELSE Downloaded(d),
                  result |-> IF ~p.success
                             THEN [result EXCEPT !.download_status = "failed",
                                                 !.download_error = p.error]
                             ELSE [result EXCEPT !.filename = p.filename,
                                                 !.extracted_text = p.text,
                                                 !.download_status = "success"]]

\* how an attempt of download_pdf_file ended
DownloadStage(r) ==
    IF r.result.download_status # "failed" THEN r.result.download_status
    ELSE IF "extract" \in r.did THEN "extraction_failed"
    ELSE "download_failed"

\* Start pressed with a valid form: the download phase begins (lines 420-434)
DownloadPhase ==
    /\ life.op = "idle"
    /\ \E urls \in UrlLists :
          /\ life.ops + Len(urls) <= MaxOps
          /\ life' = [life EXCEPT !.op = "download_phase", !.queue = urls,
                                  !.ops = @ + Len(urls), !.stage = "started",
                                  !.handler = "download_phase",
                                  !.stop_processing = FALSE, !.file_results = <<>>]
    /\ UNCHANGED <<ck, provider, replies, cs, sm, calls, files, store>>

\* Stop pressed while the download phase runs (lines 475-477)
StopButton ==
    /\ life.op = "download_phase"
    /\ ~life.stop_processing
    /\ life' = [life EXCEPT !.stop_processing = TRUE]
    /\ UNCHANGED <<ck, provider, replies, cs, sm, calls, files, store>>

\* one iteration of the download loop, or the break out of it (lines 434-460)
DownloadPhaseUrl ==
    /\ life.op = "download_phase"
    /\ IF life.stop_processing
       THEN /\ life' = [life EXCEPT !.op = "idle", !.queue = <<>>, !.stage = "stopped"]
            /\ UNCHANGED <<files, store>>
       ELSE \E d \in DownloadOutcomes, db_ok \in BOOLEAN :
               LET url == Head(life.queue)
                   r == download_pdf_file(files, url, TRUE, TRUE, d)
                   saved == r.result.download_status \in {"success", "skipped"}
                            /\ r.result.filename # ""
                   record == [NoResult EXCEPT !.url = url, !.filename = r.result.filename,
                                              !.created_at = life.clock]
                   l == [Started(life, "download_pdf_file",
                                 get_expected_filename(url) \in DOMAIN files, TRUE, store)
                           EXCEPT !.did = r.did, !.download = r.result,
                                  !.downloaded = r.downloaded,
                                  !.text = r.result.extracted_text,
                                  !.file_results = Append(@, r.result),
                                  !.queue = Tail(@)]
               IN  /\ files' = r.files
                   /\ store' = IF saved THEN insert_summary(store, record, life.clock, db_ok)
                               ELSE store
                   /\ life' = [Returned(l, DownloadStage(r),
                                        IF saved THEN record ELSE NoResult, saved /\ db_ok)
                                 EXCEPT !.op = IF Tail(life.queue) = <<>> THEN "idle"
                                               ELSE "download_phase"]
    /\ UNCHANGED <<ck, provider, replies, cs, sm, calls>>

\* the retry button of a failed download in the status table (lines 1000-1006);
\* bound: pdf_processor is only bound when the components were initialised
\* earlier in the same run of the script (line 491)
DownloadRetry ==
    /\ life.op = "idle"
    /\ life.ops < MaxOps
    /\ \E idx \in 1..Len(life.file_results), bound \in BOOLEAN, d \in DownloadOutcomes :
          /\ life.file_results[idx].download_status = "failed"
          /\ LET url == life.file_results[idx].url
                 r == download_pdf_file(files, url, bound, FALSE, d)
                 l == [Started(life, "download_retry",
                               get_expected_filename(url) \in DOMAIN files, FALSE, store)
                         EXCEPT !.did = r.did, !.download = r.result,
                                  !.downloaded = r.downloaded,
                                !.text = r.result.extracted_text,
                                !.ops = @ + 1,
                                !.file_results[idx] = r.result]
             IN  /\ files' = r.files
                 /\ life' = Returned(l, DownloadStage(r), NoResult, FALSE)
    /\ UNCHANGED <<ck, provider, replies, cs, sm, calls, store>>

\* summarize_pdf on an entry of the status table, up to the call of
\* create_summaries (lines 140-154)
SummarizePdf ==
    /\ life.op = "idle"
    /\ life.ops < MaxOps
    /\ \E idx \in 1..Len(life.file_results) :
          LET result == life.file_results[idx]
              l == [Started(life, "summarize_pdf", result.filename \in DOMAIN files,
                            FALSE, store)
                      EXCEPT !.ops = @ + 1, !.idx = idx, !.download = result,
                             !.text = result.extracted_text,
                             !.result = [NoResult EXCEPT !.url = result.url,
                                                         !.filename = result.filename,
                                                         !.created_at = life.clock]]
          IN  IF result.download_status \notin {"success", "skipped"}
              THEN /\ life' = [Returned(l, "skipped", l.result, FALSE) EXCEPT
                                 !.file_results[idx].summary_status = "skipped",
                                 !.file_results[idx].summary_error =
                                     <<"Download failed or pending">>]
                   /\ UNCHANGED <<cs, sm, calls>>
              ELSE IF result.extracted_text = <<>>
              THEN /\ life' = [Returned(l, "extraction_failed", l.result, FALSE) EXCEPT
                                 !.file_results[idx].summary_status = "failed",
                                 !.file_results[idx].summary_error =
                                     <<"No extracted text available">>]
                   /\ UNCHANGED <<cs, sm, calls>>
              ELSE /\ life' = [l EXCEPT !.op = "summarize_pdf", !.stage = "summarizing",
                                           !.did = @ \cup {"summarize"}]
                   /\ cs' = create_summaries_enter(result.extracted_text)
                   /\ sm' = summarize_enter(result.extracted_text, LongPrompt, 0)
                   /\ calls' = <<>>
    /\ UNCHANGED <<ck, provider, replies, files, store>>

\* summarize_pdf after create_summaries has returned (lines 156-187)
SummarizePdfFinish ==
    /\ life.op = "summarize_pdf"
    /\ cs.pc = "done"
    /\ \E db_ok \in BOOLEAN :
          LET result == IF ~cs.ret.success
                        THEN Failed(life.result, cs.ret.error)
                        ELSE [life.result EXCEPT !.long_summary = cs.ret.long_summary,
                                                 !.short_summary = cs.ret.short_summary,
                                                 !.status = "success"]
              l == [life EXCEPT
                      !.file_results[life.idx].summary_status =
                          IF cs.ret.success THEN "success" ELSE "failed",
                      !.file_results[life.idx].summary_error = cs.ret.error,
                      !.file_results[life.idx].long_summary =
                          IF cs.ret.success THEN cs.ret.long_summary ELSE @,
                      !.file_results[life.idx].short_summary =
                          IF cs.ret.success THEN cs.ret.short_summary ELSE @]
          IN  /\ store' = insert_summary(store, result, life.clock, db_ok)
              /\ life' = Returned(l, IF cs.ret.success THEN "success"
                                     ELSE "summarization_failed", result, db_ok)
    /\ UNCHANGED <<ck, provider, replies, cs, sm, calls, files>>

\* process_single_pdf up to the call of create_summaries (lines 214-271)
ProcessSinglePdf ==
    /\ life.op = "idle"
    /\ life.ops < MaxOps
    /\ \E url \in Urls, skip_existing \in BOOLEAN, d \in DownloadOutcomes, db_ok \in BOOLEAN :
          LET expected_filename == get_expected_filename(url)
              exists == file_exists(files, expected_filename)
              l == [Started(life, "process_single_pdf", expected_filename \in DOMAIN files,
                            skip_existing, store)
                      EXCEPT !.ops = @ + 1]
              result == [NoResult EXCEPT !.url = url, !.status = "failed",
                                         !.created_at = life.clock]
          IN  IF exists /\ skip_existing
              THEN /\ life' = Returned(l, "skipped",
                                       [result EXCEPT !.filename = expected_filename,
                                                      !.status = "skipped"], FALSE)
                   /\ UNCHANGED <<files, store, cs, sm, calls>>
              ELSE LET p == IF exists
                            THEN LET e == extract_text_and_tables(files[expected_filename])
                                 IN  [success |-> e.success, filename |-> expected_filename,
                                      text |-> e.text, error |-> e.error]
                            ELSE process_pdf(url, d)
                       m == [l EXCEPT !.did = IF exists THEN {"extract"}
                                              ELSE ProcessPdfDid(d),
                                      !.downloaded = IF exists THEN "none"
                                                     ELSE Downloaded(d),
                                      !.text = p.text]
                   IN  /\ files' = IF exists THEN files
                                   ELSE FilesAfterDownload(files, url, d)
                       /\ IF ~Proceeds(p)
                          THEN /\ store' = insert_summary(store, Failed(result, p.error),
                                                          life.clock, db_ok)
                               /\ life' = Returned(m, IF "extract" \in m.did
                                                      THEN "extraction_failed"
                                                      ELSE "download_failed",
                                                   Failed(result, p.error), db_ok)
                               /\ UNCHANGED <<cs, sm, calls>>
                          ELSE /\ life' = [m EXCEPT !.op = "process_single_pdf",
                                                    !.stage = "summarizing",
                                                    !.did = @ \cup {"summarize"},
                                                    !.result = [result EXCEPT
                                                                  !.filename = p.filename]]
                               /\ cs' = create_summaries_enter(p.text)
                               /\ sm' = summarize_enter(p.text, LongPrompt, 0)
                               /\ calls' = <<>>
                               /\ UNCHANGED store
    /\ UNCHANGED <<ck, provider, replies>>

\* process_single_pdf after create_summaries has returned (lines 273-291)
ProcessSinglePdfFinish ==
    /\ life.op = "process_single_pdf"
    /\ cs.pc = "done"
    /\ \E db_ok \in BOOLEAN :
          LET result == IF ~cs.ret.success
                        THEN Failed(life.result, cs.ret.error)
                        ELSE [life.result EXCEPT !.long_summary = cs.ret.long_summary,
                                                 !.short_summary = cs.ret.short_summary,
                                                 !.status = "success"]
          IN  /\ store' = insert_summary(store, result, life.clock, db_ok)
              /\ life' = Returned(life, IF cs.ret.success THEN "success"
                                        ELSE "summarization_failed", result, db_ok)
    /\ UNCHANGED <<ck, provider, replies, cs, sm, calls, files>>

\* sorted(list_all_files()) for the two file names of the model
list_all_files(fs) ==
    (IF "a.pdf" \in DOMAIN fs THEN <<"a.pdf">> ELSE <<>>)
    \o (IF "b.pdf" \in DOMAIN fs THEN <<"b.pdf">> ELSE <<>>)

\* mutant: only files without any record are selected
should_process_only_missing(st, f, force_resummarize) ==
    LET summary == get_summary_by_filename(st, f)
    IN  \/ force_resummarize
        \/ summary = None

\* Summarize All: does the file need processing (lines 574-584)
should_process(st, f, force_resummarize) ==
    LET summary == get_summary_by_filename(st, f)
    IN  \/ force_resummarize
        \/ summary = None
        \/ summary.status # "success"
        \/ summary.long_summary = <<>>

\* mutant: the new record never takes the URL of the newest record
ExistingUrl_blank(st, filename) == ""

\* the URL of the newest record of the file, if it has one (lines 599-603)
ExistingUrl(st, filename) ==
    LET existing_summary == get_summary_by_filename(st, filename)
    IN  IF existing_summary # None /\ existing_summary.url # ""
        THEN existing_summary.url ELSE ""

\* Summarize All pressed: the files to process are selected (lines 560-594)
SummarizeAll ==
    /\ life.op = "idle"
    /\ \E force_resummarize \in BOOLEAN :
          LET existing_files == list_all_files(files)
              files_to_process == SelectSeq(existing_files,
                                    LAMBDA f : should_process(store, f, force_resummarize))
              l == [life EXCEPT !.ops = @ + Len(files_to_process),
                                !.stage = "selected", !.inserted = FALSE,
                                !.handler = "summarize_all",
                                !.result = NoResult,
                                !.skipped_count = Len(existing_files) - Len(files_to_process)]
          IN  /\ life.ops + Len(files_to_process) <= MaxOps
              /\ life' = IF files_to_process = <<>>
                         THEN l
                         ELSE [l EXCEPT !.op = "summarize_all", !.queue = files_to_process]
    /\ UNCHANGED <<ck, provider, replies, cs, sm, calls, files, store>>

\* the loop moves on to the next file, or ends after the last one
NextFile(l, stage, result, db_ok) ==
    [Returned(l, stage, result, db_ok) EXCEPT
        !.queue = Tail(l.queue),
        !.op = IF Tail(l.queue) = <<>> THEN "idle" ELSE "summarize_all"]

\* mutant: an iteration may begin while the one before is still running
LoopBodyDone_any(l) == TRUE

\* the body of the for loop runs to its end before the next iteration begins
LoopBodyDone(l) == l.stage # "summarizing"

\* Summarize All, one file up to the call of create_summaries (lines 596-628)
SummarizeAllFile ==
    /\ life.op = "summarize_all"
    /\ LoopBodyDone(life)
    /\ \E db_ok \in BOOLEAN :
          LET filename == Head(life.queue)
              existing_url == ExistingUrl(store, filename)
              result == [NoResult EXCEPT !.url = existing_url, !.filename = filename,
                                         !.created_at = life.clock]
              e == extract_text_and_tables(files[filename])
              l == [Started(life, "summarize_all", TRUE, FALSE, store)
                      EXCEPT !.did = {"extract"}, !.text = e.text,
                             !.existing_url = existing_url]
          IN  IF ~Proceeds(e)
              THEN LET error_msg == <<"Text extraction failed: ">> \o e.error
                   IN  /\ store' = insert_summary(store, Failed(result, error_msg),
                                                  life.clock, db_ok)
                       /\ life' = NextFile(l, "extraction_failed",
                                           Failed(result, error_msg), db_ok)
                       /\ UNCHANGED <<cs, sm, calls>>
              ELSE /\ life' = [l EXCEPT !.stage = "summarizing", !.result = result,
                                           !.did = @ \cup {"summarize"}]
                   /\ cs' = create_summaries_enter(e.text)
                   /\ sm' = summarize_enter(e.text, LongPrompt, 0)
                   /\ calls' = <<>>
                   /\ UNCHANGED store
    /\ UNCHANGED <<ck, provider, replies, files>>

\* Summarize All, one file after create_summaries has returned (lines 630-678)
SummarizeAllFileFinish ==
    /\ life.op = "summarize_all"
    /\ life.stage = "summarizing"
    /\ cs.pc = "done"
    /\ \E db_ok \in BOOLEAN :
          LET result == IF cs.ret.success
                        THEN [life.result EXCEPT !.long_summary = cs.ret.long_summary,
                                                 !.short_summary = cs.ret.short_summary,
                                                 !.status = "success"]
                        ELSE Failed(life.result,
                                    <<"Summarization failed: ">> \o cs.ret.error)
          IN  /\ store' = insert_summary(store, result, life.clock, db_ok)
              /\ life' = NextFile(life, IF cs.ret.success THEN "success"
                                        ELSE "summarization_failed", result, db_ok)
    /\ UNCHANGED <<ck, provider, replies, cs, sm, calls, files>>

\* the button a listed file shows, decided by its newest record
\* (lines 732-745, 802, 852)
ButtonOf(st, filename) ==
    LET summary_record == get_summary_by_filename(st, filename)
    IN  IF summary_record # None /\ summary_record.status = "success" THEN "resummarize"
        ELSE IF summary_record # None /\ summary_record.status = "failed" THEN "retry"
        ELSE "generate_summary"

\* a button of the file list starts an attempt on the file: the file has
\* been extracted with result e
OnFile(l, handler, filename, url, e, st) ==
    [Started(l, handler, TRUE, FALSE, st)
       EXCEPT !.ops = @ + 1, !.did = {"extract"}, !.text = e.text, !.existing_url = url,
              !.result = [NoResult EXCEPT !.url = url, !.filename = filename,
                                          !.created_at = l.clock]]

\* the record of a successful attempt
Succeeded(result, ret) ==
    [result EXCEPT !.long_summary = ret.long_summary, !.short_summary = ret.short_summary,
                   !.status = "success"]

\* Re-summarize pressed on a file whose newest record is a success, up to
\* the call of create_summaries (lines 772-781, 798-799)
Resummarize ==
    /\ life.op = "idle"
    /\ life.ops < MaxOps
    /\ \E filename \in DOMAIN files :
          /\ ButtonOf(store, filename) = "resummarize"
          /\ LET summary_record == get_summary_by_filename(store, filename)
                 e == extract_text_and_tables(files[filename])
                 l == OnFile(life, "resummarize", filename, summary_record.url, e, store)
             IN  IF ~Proceeds(e)
                 THEN /\ life' = Returned(l, "extraction_failed", l.result, FALSE)
                      /\ UNCHANGED <<cs, sm, calls>>
                 ELSE /\ life' = [l EXCEPT !.op = "resummarize", !.stage = "summarizing",
                                              !.did = @ \cup {"summarize"}]
                      /\ cs' = create_summaries_enter(e.text)
                      /\ sm' = summarize_enter(e.text, LongPrompt, 0)
                      /\ calls' = <<>>
    /\ UNCHANGED <<ck, provider, replies, files, store>>

\* Re-summarize after create_summaries has returned (lines 783-797)
ResummarizeFinish ==
    /\ life.op = "resummarize"
    /\ cs.pc = "done"
    /\ IF cs.ret.success
       THEN \E db_ok \in BOOLEAN :
               /\ store' = insert_summary(store, Succeeded(life.result, cs.ret),
                                          life.clock, db_ok)
               /\ life' = Returned(life, "success", Succeeded(life.result, cs.ret), db_ok)
       ELSE /\ life' = Returned(life, "summarization_failed", life.result, FALSE)
            /\ UNCHANGED store
    /\ UNCHANGED <<ck, provider, replies, cs, sm, calls, files>>

\* Retry pressed on a file whose newest record is a failure, up to the call
\* of create_summaries (lines 807-816, 847-848)
Retry ==
    /\ life.op = "idle"
    /\ life.ops < MaxOps
    /\ \E filename \in DOMAIN files :
          /\ ButtonOf(store, filename) = "retry"
          /\ LET summary_record == get_summary_by_filename(store, filename)
                 e == extract_text_and_tables(files[filename])
                 l == OnFile(life, "retry", filename, summary_record.url, e, store)
             IN  IF ~Proceeds(e)
                 THEN /\ life' = Returned(l, "extraction_failed", l.result, FALSE)
                      /\ UNCHANGED <<cs, sm, calls>>
                 ELSE /\ life' = [l EXCEPT !.op = "retry", !.stage = "summarizing",
                                              !.did = @ \cup {"summarize"}]
                      /\ cs' = create_summaries_enter(e.text)
                      /\ sm' = summarize_enter(e.text, LongPrompt, 0)
                      /\ calls' = <<>>
    /\ UNCHANGED <<ck, provider, replies, files, store>>

\* Retry after create_summaries has returned (lines 818-846)
RetryFinish ==
    /\ life.op = "retry"
    /\ cs.pc = "done"
    /\ \E db_ok \in BOOLEAN :
          LET result == IF cs.ret.success
                        THEN Succeeded(life.result, cs.ret)
                        ELSE Failed(life.result, <<"Retry failed: ">> \o cs.ret.error)
          IN  /\ store' = insert_summary(store, result, life.clock, db_ok)
              /\ life' = Returned(life, IF cs.ret.success THEN "success"
                                        ELSE "summarization_failed", result, db_ok)
    /\ UNCHANGED <<ck, provider, replies, cs, sm, calls, files>>

\* Generate Summary pressed on a file whose newest record is neither a
\* success nor a failure, up to the call of create_summaries
\* (lines 856-871, 902-917)
GenerateSummary ==
    /\ life.op = "idle"
    /\ life.ops < MaxOps
    /\ \E filename \in DOMAIN files, db_ok \in BOOLEAN :
          /\ ButtonOf(store, filename) = "generate_summary"
          /\ LET e == extract_text_and_tables(files[filename])
                 l == OnFile(life, "generate_summary", filename,
                             ExistingUrl(store, filename), e, store)
                 error_msg == <<"Text extraction failed: ">> \o e.error
             IN  IF ~Proceeds(e)
                 THEN /\ store' = insert_summary(store, Failed(l.result, error_msg),
                                                 life.clock, db_ok)
                      /\ life' = Returned(l, "extraction_failed",
                                          Failed(l.result, error_msg), db_ok)
                      /\ UNCHANGED <<cs, sm, calls>>
                 ELSE /\ life' = [l EXCEPT !.op = "generate_summary",
                                           !.stage = "summarizing",
                                           !.did = @ \cup {"summarize"}]
                      /\ cs' = create_summaries_enter(e.text)
                      /\ sm' = summarize_enter(e.text, LongPrompt, 0)
                      /\ calls' = <<>>
                      /\ UNCHANGED store
    /\ UNCHANGED <<ck, provider, replies, files>>

\* Generate Summary after create_summaries has returned (lines 873-901)
GenerateSummaryFinish ==
    /\ life.op = "generate_summary"
    /\ cs.pc = "done"
    /\ \E db_ok \in BOOLEAN :
          LET result == IF cs.ret.success
                        THEN Succeeded(life.result, cs.ret)
                        ELSE Failed(life.result,
                                    <<"Summarization failed: ">> \o cs.ret.error)
          IN  /\ store' = insert_summary(store, result, life.clock, db_ok)
              /\ life' = Returned(life, IF cs.ret.success THEN "success"
                                        ELSE "summarization_failed", result, db_ok)
    /\ UNCHANGED <<ck, provider, replies, cs, sm, calls, files>>

InitialFiles == UNION {[S -> FileContents] : S \in SUBSET {"a.pdf", "b.pdf"}}

\* the table as a session finds it: empty, or holding the record of an
\* earlier session whose backend returned an empty text for a.pdf
EarlierRecord == [NoResult EXCEPT !.filename = "a.pdf", !.status = "success"]
InitialStores(fs) ==
    IF DOMAIN fs = {"a.pdf"} /\ extract_text_and_tables(fs["a.pdf"]).success
    THEN {<<>>, <<EarlierRecord>>}
    ELSE {<<>>}

\* the session runs on one backend (SpecProv covers the others)
InitLife ==
    /\ ck = CkIdle
    /\ provider = "openai"
    /\ replies = {<<"s">>}
    /\ cs = CsIdle
    /\ sm = SmIdle
    /\ calls = <<>>
    /\ files \in InitialFiles
    /\ store \in InitialStores(files)
    /\ life = [LifeIdle EXCEPT !.before = Len(store)]

NextLife ==
    \/ DownloadPhase
    \/ StopButton
    \/ DownloadPhaseUrl
    \/ DownloadRetry
    \/ SummarizePdf
    \/ SummarizePdfFinish
    \/ ProcessSinglePdf
    \/ ProcessSinglePdfFinish
    \/ SummarizeAll
    \/ SummarizeAllFile
    \/ SummarizeAllFileFinish
    \/ Resummarize
    \/ ResummarizeFinish
    \/ Retry
    \/ RetryFinish
    \/ GenerateSummary
    \/ GenerateSummaryFinish
    \/ SummarizerStep

SpecLife == InitLife /\ [][NextLife]_vars

----------------------------------------------------------------------------
(* Reading the log of backend calls *)

\* the backend calls made by the running invocation of summarize
MyCalls == SubSeq(calls, sm.base + 1, Len(calls))

CallsOfPhase(phase) == SelectSeq(calls, LAMBDA c : c.phase = phase)

Contains(str, sub) ==
    \E k \in 0..(Len(str) - Len(sub)) : SubSeq(str, k + 1, k + Len(sub)) = sub

LongStepFailed == \E j \in 1..Len(calls) : calls[j].phase = "long" /\ ~calls[j].success
ShortStepFailed == \E j \in 1..Len(calls) : calls[j].phase = "short" /\ ~calls[j].success

\* what the backend replies of a successful step add up to
SummaryFromLog(cc) ==
    IF cc = <<>> THEN <<>>
    ELSE IF cc[Len(cc)].kind \in {"single", "reduce"} THEN cc[Len(cc)].summary
    ELSE JoinWith(<<"\n", "\n">>,
                  [j \in 1..Len(cc) |-> <<PartLabel(j), "\n">> \o cc[j].summary])

\* C5: more than 3 chunks and every chunk call succeeded: exactly one more
\* backend call follows the chunk calls, its input is the concatenation of
\* the labelled part summaries, and summarize returns that call's result,
\* not the concatenation.
C5_ReducePassOnce ==
    LET n == Len(sm.chunks)
        mc == MyCalls
    IN  (sm.pc = "ret" /\ n > 3 /\ Len(mc) >= n /\ \A j \in 1..n : mc[j].success)
        => /\ Len(mc) = n + 1
           /\ \A j \in 1..n : mc[j].kind = "chunk"
           /\ mc[n + 1].kind = "reduce"
           /\ mc[n + 1].text = JoinWith(<<"\n", "\n">>,
                                   [j \in 1..n |-> <<PartLabel(j), "\n">> \o mc[j].summary])
           /\ sm.ret = [success |-> mc[n + 1].success, summary |-> mc[n + 1].summary,
                        error |-> mc[n + 1].error]
           /\ sm.ret.summary # mc[n + 1].text

C5_Witness ==
    /\ sm.pc = "ret"
    /\ cs.pc = "long"
    /\ Len(sm.chunks) = 4
    /\ Len(MyCalls) = 5
    /\ sm.ret.success
    /\ sm.ret.summary = <<"s">>
    /\ MyCalls[4].summary = <<"t", " ", "t">>

\* C6: when the backend call for chunk i fails, summarize returns failure
\* with an empty summary and the error "Error in chunk i: <cause>", no
\* backend call follows the failed one, and create_summaries returns
\* failure with an error that contains "Error in chunk i".
C6_ChunkFailureAborts ==
    /\ \A j \in 1..Len(calls) :
          (calls[j].kind = "chunk" /\ ~calls[j].success) => j = Len(calls)
    /\ LET mc == MyCalls
       IN  (sm.pc = "ret" /\ mc # <<>> /\ mc[Len(mc)].kind = "chunk" /\ ~mc[Len(mc)].success)
           => /\ mc[Len(mc)].i = Len(mc)
              /\ sm.ret = [success |-> FALSE, summary |-> <<>>,
                           error |-> <<"Error in chunk ", ToString(Len(mc)), ": ">>
                                     \o mc[Len(mc)].error]
    /\ (cs.pc = "done" /\ calls # <<>> /\ calls[Len(calls)].kind = "chunk"
            /\ ~calls[Len(calls)].success)
       => /\ ~cs.ret.success
          /\ cs.ret.short_summary = <<>>
          /\ Contains(cs.ret.error,
                      <<"Error in chunk ", ToString(calls[Len(calls)].i)>> )

C6_Witness ==
    /\ cs.pc = "done"
    /\ Len(calls) = 2
    /\ calls[1].success
    /\ ~calls[2].success
    /\ calls[2].phase = "long"
    /\ calls[2].prompt = chunk_prompt(LongPrompt, 2, 3)
    /\ Contains(cs.ret.error, <<"Error in chunk ", "2">>)

\* C7: the text given to the short-summary step is the fixed lead-in
\* followed by the long summary, and no backend call made after the long
\* summary was obtained carries document text (the backend's replies and
\* the document are written in disjoint letters, so a letter of the
\* document in a payload can only come from the document).
C7_ShortStepSeesOnlyLongSummary ==
    /\ cs.pc = "short" => sm.text = LeadIn \o SummaryFromLog(CallsOfPhase("long"))
    /\ \A j \in 1..Len(calls) :
          calls[j].phase = "short"
          => /\ \A k \in 1..Len(calls[j].text) : calls[j].text[k] \notin Letters
             /\ \A m \in j..Len(calls) : calls[m].phase = "short"

C7_Witness ==
    /\ cs.pc = "done"
    /\ cs.ret.success
    /\ \E k \in 1..Len(cs.text) : cs.text[k] \in Letters
    /\ Len(CallsOfPhase("long")) = 3
    /\ Len(CallsOfPhase("short")) >= 4

\* C8: if the long-summary step fails, no short-summary backend call is
\* made, no inter-call delay is taken, and create_summaries returns failure
\* with both summaries empty.
C8_LongFailureSkipsShort ==
    LongStepFailed
    => /\ CallsOfPhase("short") = <<>>
       /\ cs.sleeps = 0
       /\ cs.pc \in {"long", "done"}
       /\ cs.pc = "done" => /\ ~cs.ret.success
                            /\ cs.ret.long_summary = <<>>
                            /\ cs.ret.short_summary = <<>>

C8_Witness ==
    /\ cs.pc = "done"
    /\ LongStepFailed
    /\ Len(calls) = 5
    /\ calls[5].kind = "reduce"
    /\ cs.sleeps = 0

\* C9: if the long-summary step succeeds and the short-summary step fails,
\* create_summaries returns failure with the long summary that was computed,
\* an empty short summary and a non-empty error; the error prefix tells this
\* outcome from a failure of the long step.
C9_PartialSuccessKeepsLong ==
    /\ (cs.pc = "done" /\ ~LongStepFailed /\ ShortStepFailed)
       => /\ ~cs.ret.success
          /\ cs.ret.long_summary = SummaryFromLog(CallsOfPhase("long"))
          /\ cs.ret.short_summary = <<>>
          /\ cs.ret.error # <<>>
          /\ Head(cs.ret.error) = "Short summary error: "
    /\ (cs.pc = "done" /\ LongStepFailed)
       => Head(cs.ret.error) = "Long summary error: "

C9_Witness ==
    /\ cs.pc = "done"
    /\ ~LongStepFailed
    /\ ShortStepFailed
    /\ Len(CallsOfPhase("long")) = 2
    /\ cs.ret.long_summary # <<>>
    /\ cs.ret.long_summary = combined_summary(
           << <<PartLabel(1), "\n", "s">>, <<PartLabel(2), "\n", "t", " ", "t">> >>)

\* C10: when summarization fails in a lifecycle handler, the Attempt Record
\* that is appended has status failed, an empty short_summary, and the
\* long_summary that create_summaries returned (the computed one when only
\* the short step failed, empty when the long step failed).
C10_FailedRecordKeepsLongSummary ==
    (life.stage = "summarization_failed" /\ life.inserted)
    => LET record == store[Len(store)]
       IN  /\ record.status = "failed"
           /\ record.short_summary = <<>>
           /\ record.long_summary = cs.ret.long_summary

----------------------------------------------------------------------------
(* The attempts of the lifecycle handlers *)

\* the attempt life describes went through download_pdf_file
ViaDownloadPdfFile == life.handler \in {"download_pdf_file", "download_retry"}

\* the attempt life describes has reached its outcome
Success == life.stage = "success"
Failure == life.stage \in {"download_failed", "extraction_failed", "summarization_failed"}

\* the records the attempt has appended so far
Appended == SubSeq(store, life.before + 1, Len(store))

\* C11: when a file with the URL's derived filename exists and skip-existing
\* is true, the attempt of download_pdf_file or process_single_pdf never
\* invokes the Download collaborator (process_pdf / download_pdf).
C11_SkipExistingNeverDownloads ==
    ((ViaDownloadPdfFile \/ life.handler = "process_single_pdf")
        /\ life.had_file /\ life.skip_existing)
    => "download" \notin life.did

C11_Witness ==
    /\ life.handler = "download_pdf_file"
    /\ life.had_file
    /\ life.skip_existing
    /\ life.download.download_status = "skipped"
    /\ life.did = {"extract"}
    /\ life.download.filename \in DOMAIN files

\* C12: an attempt that ends with status skipped has invoked the Extraction
\* collaborator on the existing file and its result carries the non-empty
\* extracted text; when that extraction fails the attempt ends failed.
C12_SkippedAttemptExtracted ==
    /\ (ViaDownloadPdfFile /\ life.download.download_status = "skipped")
       => /\ "extract" \in life.did
          /\ life.download.extracted_text # <<>>
    /\ (life.handler = "process_single_pdf" /\ life.stage = "skipped")
       => /\ "extract" \in life.did
          /\ life.text # <<>>
    /\ (ViaDownloadPdfFile /\ life.had_file /\ life.skip_existing
           /\ life.stage = "extraction_failed")
       => life.download.download_status = "failed"

\* C13: every attempt of the download phase, of process_single_pdf and of
\* batch summarization that reaches a terminal outcome has appended exactly
\* one Attempt Record.
C13_OneRecordPerTerminalOutcome ==
    (life.handler \in {"download_pdf_file", "process_single_pdf", "summarize_all"}
        /\ (Success \/ Failure))
    => Len(Appended) = 1

\* C14: whenever download, extraction or summarization fails in a lifecycle
\* entry point, an Attempt Record with status failed and a non-empty
\* error_message has been appended.
C14_EveryFailureIsRecorded ==
    (life.handler \in {"download_pdf_file", "download_retry", "summarize_pdf",
                       "summarize_all", "retry", "resummarize", "generate_summary"}
        /\ Failure)
    => /\ Appended # <<>>
       /\ Appended[Len(Appended)].status = "failed"
       /\ Appended[Len(Appended)].error_message # <<>>

\* C15: the store is append-only: every step of every lifecycle operation
\* leaves the records that exist in place, with every field unchanged, and
\* only adds records after them.
C15_StoreIsAppendOnly ==
    [][/\ Len(store') >= Len(store)
       /\ SubSeq(store', 1, Len(store)) = store]_vars

C15_Witness ==
    /\ life.handler = "retry"
    /\ Success
    /\ Len(store) = 2
    /\ store[1].filename = store[2].filename
    /\ store[1].status = "failed"
    /\ store[1].error_message # <<>>
    /\ store[2].status = "success"

----------------------------------------------------------------------------
(* Summarizer.summarize, seen from its caller *)

\* the text and the prompt create_summaries handed to the running summarize,
\* and the chunks summarize made of the text
GivenText == IF cs.pc = "long" THEN cs.text ELSE cs.short_summary_context
GivenPrompt == IF cs.pc = "long" THEN LongPrompt ELSE ShortPrompt
GivenChunks == sm.chunks

SummarizeRunning == cs.pc \in {"long", "short"} /\ sm.pc # "idle"

\* "[Part j]\n<summary of call j>" for the first n calls, joined by a blank line
JoinedParts(mc, n) ==
    JoinWith(<<"\n", "\n">>,
             [j \in 1..n |-> <<"[Part " \o ToString(j) \o "]", "\n">> \o mc[j].summary])

\* C17: when the text forms exactly one chunk, exactly one backend call is
\* made, with the original text and the original prompt (no part
\* annotation), and summarize returns that call's triple unmodified.
C17_SingleChunkPassesThrough ==
    (SummarizeRunning /\ Len(GivenChunks) = 1)
    => LET mc == MyCalls
       IN  /\ sm.pc \in {"single", "ret"}
           /\ sm.pc = "single" => mc = <<>>
           /\ sm.pc = "ret"
              => /\ Len(mc) = 1
                 /\ mc[1].text = GivenText
                 /\ mc[1].prompt = GivenPrompt
                 /\ sm.ret = [success |-> mc[1].success, summary |-> mc[1].summary,
                              error |-> mc[1].error]

C17_Witness ==
    /\ SummarizeRunning
    /\ cs.pc = "long"
    /\ sm.pc = "ret"
    /\ Len(GivenChunks) = 1
    /\ GivenChunks[1] # GivenText
    /\ Len(GivenText) > MaxChars
    /\ sm.ret.success
    /\ sm.ret.summary = <<"t", " ", "t">>

\* C18: when the text splits into N >= 2 chunks, the backend is called once
\* per chunk, in chunk order 1..N, call i carrying chunk i and the prompt
\* annotated "(This is part i of N of the document)"; a chunk is only sent
\* after the one before it succeeded; once all N succeeded, the part
\* summaries labelled "[Part i]" and joined in that order by a blank line
\* are what summarize returns (N <= 3) or hands to the reduce pass (N > 3).
C18_ChunkCallsInOrder ==
    (SummarizeRunning /\ Len(GivenChunks) >= 2)
    => LET mc == MyCalls
           n == Len(GivenChunks)
       IN  /\ sm.pc \in {"loop", "reduce", "ret"}
           /\ Len(mc) <= n + 1
           /\ sm.pc = "loop" => Len(mc) < n
           /\ \A j \in 1..Len(mc) :
                 j <= n
                 => /\ mc[j].kind = "chunk"
                    /\ mc[j].i = j
                    /\ mc[j].text = GivenChunks[j]
                    /\ mc[j].prompt = GivenPrompt \o
                          <<"\n", "\n", "(This is part ", ToString(j), " of ",
                            ToString(n), " of the document)">>
                    /\ j < Len(mc) => mc[j].success
           /\ (Len(mc) >= n /\ mc[n].success)
              => /\ sm.pc \in {"reduce", "ret"}
                 /\ (sm.pc = "ret" /\ n <= 3)
                    => sm.ret = [success |-> TRUE, summary |-> JoinedParts(mc, n),
                                 error |-> <<>>]
                 /\ Len(mc) = n + 1 => mc[n + 1].text = JoinedParts(mc, n)

C18_Witness ==
    /\ SummarizeRunning
    /\ cs.pc = "long"
    /\ sm.pc = "ret"
    /\ Len(GivenChunks) = 3
    /\ Len(MyCalls) = 3
    /\ sm.ret.success
    /\ MyCalls[1].summary = <<"t", " ", "t">>
    /\ MyCalls[2].summary = <<"s">>
    /\ MyCalls[3].prompt = <<"long_prompt", "\n", "\n", "(This is part ", "3", " of ", "3",
                             " of the document)">>
    /\ sm.ret.summary = <<"[Part 1]", "\n", "t", " ", "t", "\n", "\n",
                          "[Part 2]", "\n", "s", "\n", "\n",
                          "[Part 3]", "\n", "s">>

\* C19: when the text splits into exactly 2 or 3 chunks and every chunk call
\* succeeds, no reduce call is made: the backend calls are the chunk calls,
\* as many as there are chunks, and summarize returns success with the
\* concatenation of the labelled part summaries.
C19_NoReduceForTwoOrThree ==
    (SummarizeRunning /\ Len(GivenChunks) \in {2, 3})
    => LET mc == MyCalls
           n == Len(GivenChunks)
       IN  /\ sm.pc # "reduce"
           /\ \A j \in 1..Len(mc) : mc[j].kind # "reduce"
           /\ (sm.pc = "ret" /\ \A j \in 1..Len(mc) : mc[j].success)
              => /\ Len(mc) = n
                 /\ sm.ret.success
                 /\ sm.ret.error = <<>>
                 /\ sm.ret.summary = JoinedParts(mc, n)

C19_Witness ==
    /\ SummarizeRunning
    /\ cs.pc = "short"
    /\ sm.pc = "ret"
    /\ Len(GivenChunks) = 2
    /\ Len(MyCalls) = 2
    /\ sm.ret.success
    /\ sm.ret.summary = <<"[Part 1]", "\n", "s", "\n", "\n", "[Part 2]", "\n", "s">>

\* the error text carries the error prefix of the backend in use
NamesBackend(error) ==
    \E k \in 1..Len(error) :
        error[k] = (IF provider = "claude" THEN "Claude API error: "
                    ELSE IF provider = "openai" THEN "OpenAI API error: "
                    ELSE "OpenRouter API error: ")

NamesChunk(error, i) == Contains(error, <<"Error in chunk ", ToString(i), ": ">>)

MultiChunkFailure ==
    /\ SummarizeRunning
    /\ Len(GivenChunks) >= 2
    /\ sm.pc = "ret"
    /\ ~sm.ret.success

\* C20 as stated: every failure of summarize on a multi-chunk text, a
\* failure of the reduce pass included, carries an error that names the
\* chunk index that failed and the backend.
C20_Original_EveryFailureNamesChunkAndBackend ==
    MultiChunkFailure
    => /\ NamesBackend(sm.ret.error)
       /\ \E i \in 1..Len(GivenChunks) : NamesChunk(sm.ret.error, i)

\* C20 amended: every failure of summarize on a multi-chunk text names the
\* backend; the failure of a chunk call also names the index of that chunk;
\* the failure of the reduce pass is the backend's error unchanged and names
\* no chunk.
C20_FailureNamesBackendAndFailedChunk ==
    MultiChunkFailure
    => LET mc == MyCalls
           last == mc[Len(mc)]
       IN  /\ mc # <<>>
           /\ ~last.success
           /\ NamesBackend(sm.ret.error)
           /\ last.kind = "chunk"
              => /\ last.i = Len(mc)
                 /\ NamesChunk(sm.ret.error, Len(mc))
                 /\ \A i \in 1..Len(GivenChunks) :
                       i # Len(mc) => ~NamesChunk(sm.ret.error, i)
           /\ last.kind # "chunk"
              => /\ last.kind = "reduce"
                 /\ sm.ret.error = last.error
                 /\ \A i \in 1..Len(GivenChunks) : ~NamesChunk(sm.ret.error, i)

C20_Witness ==
    /\ MultiChunkFailure
    /\ Len(GivenChunks) = 4
    /\ Len(MyCalls) = 5
    /\ MyCalls[5].kind = "reduce"
    /\ NamesBackend(sm.ret.error)

----------------------------------------------------------------------------
(* The chunks and the payloads of the backend calls *)

\* C25: for a non-empty text and max_chars >= 1 no chunk the chunker
\* returns is empty, also when the first token is as long as max_chars or
\* longer.
C25_NoEmptyChunk ==
    (ck.pc = "done" /\ ck.text # <<>>)
    => \A j \in 1..Len(ck.chunks) : ck.chunks[j] # <<>>

\* a payload is one token: it has no whitespace in it
SingleToken(text) == \A k \in 1..Len(text) : ~IsSpace(text[k])

\* C30: the text of every backend call is at most max_chars long, unless
\* it is a single oversize token; this holds for the reduce-pass input too.
C30_PayloadWithinMaxChars ==
    \A j \in 1..Len(calls) :
        Len(calls[j].text) <= MaxChars \/ SingleToken(calls[j].text)

----------------------------------------------------------------------------
(* The order of the steps within an attempt *)

\* summarization was started in the attempt
Summarized == "summarize" \in life.did

\* C21: a failure ends the attempt. After a failed download neither
\* extraction nor summarization is invoked for the document; after a failed
\* extraction (no text content included) summarization is not invoked; and
\* summarize_pdf does not summarize an entry whose download failed or whose
\* extracted text is empty.
C21_FailureIsTerminal ==
    /\ life.downloaded = "failed" => life.did = {"download"}
    /\ ("extract" \in life.did /\ life.text = <<>>) => ~Summarized
    /\ (/\ life.handler = "summarize_pdf"
        /\ \/ life.download.download_status \notin {"success", "skipped"}
           \/ life.download.extracted_text = <<>>)
       => ~Summarized
    /\ ~Summarized => life.stage # "summarizing"

C21_Witness ==
    /\ life.handler = "process_single_pdf"
    /\ life.op = "idle"
    /\ life.downloaded = "failed"
    /\ life.stage = "download_failed"
    /\ life.result.status = "failed"
    /\ ~Summarized

\* a retry of a document has returned
RetryReturned ==
    /\ life.handler \in {"retry", "download_retry"}
    /\ life.op = "idle"

\* C22: a retry starts at extraction, without a download, when the file is
\* on disk, starts at the download when the file is absent, and in either
\* case goes on to summarization once extraction has succeeded.
C22_RetryResumesAndSummarizes ==
    RetryReturned
    => /\ life.had_file => (life.did \cap {"download", "extract"}) = {"extract"}
       /\ ~life.had_file => "download" \in life.did
       /\ ("extract" \in life.did /\ life.text # <<>>) => Summarized

\* a document of a batch loop (download phase, Summarize All) was started
BatchDocumentStarted ==
    /\ life.handler \in {"download_pdf_file", "summarize_all"}
    /\ life.stage # "selected"

\* C23: in every batch loop the stop flag is sampled at the start of each
\* document iteration: no document is started while the flag is set.
C23_NoDocumentStartedAfterStop ==
    BatchDocumentStarted => ~life.stop_at_start

\* the stages in which an attempt on a document ends
TerminalStages ==
    {"success", "skipped", "download_failed", "extraction_failed", "summarization_failed"}

\* a document of Summarize All is between extraction and its record
DocumentInProgress ==
    /\ life.op = "summarize_all"
    /\ life.stage = "summarizing"

\* C24: in a batch each document is driven to its terminal outcome before
\* any step of the next document begins. While a document of Summarize All is
\* in progress every step belongs to it (the backend log only grows, the text
\* being summarized, the folder and the store stay as they are), and a batch
\* loop only moves on to the next document with the current one in a
\* terminal stage.
C24_DocumentsNeverInterleave ==
    [][/\ DocumentInProgress
          => /\ Len(calls') >= Len(calls)
             /\ SubSeq(calls', 1, Len(calls)) = calls
             /\ cs'.text = cs.text
             /\ files' = files
             /\ life'.queue = life.queue
                => (store' = store /\ life'.stage = "summarizing")
             /\ life'.queue # life.queue => cs.pc = "done"
       /\ (life.op \in {"download_phase", "summarize_all"} /\ life'.queue # life.queue)
          => \/ life'.stage = "stopped"
             \/ /\ life'.queue = Tail(life.queue)
                /\ life'.stage \in TerminalStages]_vars

C24_Witness ==
    /\ DocumentInProgress
    /\ life.result.filename = "b.pdf"
    /\ calls # <<>>
    /\ \E j \in 1..Len(store) : store[j].filename = "a.pdf" /\ store[j].status = "success"

----------------------------------------------------------------------------
(* Attempts and the records of earlier attempts *)

\* the store as it was when the attempt began
StoreBefore == SubSeq(store, 1, life.before)

\* the file is summarized: its newest record is a success with a long summary
IsSummarized(st, filename) ==
    LET summary == get_summary_by_filename(st, filename)
    IN  /\ summary # None
        /\ summary.status = "success"
        /\ summary.long_summary # <<>>

\* C26: once the newest record of a file is a success with a non-empty long
\* summary, running the download phase again for the same URL (the file is on
\* disk, the download is skipped) does not change what
\* get_summary_by_filename returns for the file, so Summarize All without
\* force still skips it.
C26_DownloadKeepsLatestRecord ==
    (/\ life.handler = "download_pdf_file"
     /\ life.stage = "skipped"
     /\ IsSummarized(StoreBefore, life.download.filename))
    => /\ get_summary_by_filename(store, life.download.filename)
          = get_summary_by_filename(StoreBefore, life.download.filename)
       /\ ~should_process(store, life.download.filename, FALSE)

\* the URL the attempt was given
AttemptUrl == IF ViaDownloadPdfFile THEN life.download.url ELSE life.result.url

\* C27: a download that returns failure leaves the download folder as it
\* was: the file was absent before the download (otherwise none is made) and
\* is absent after it, so no later skip-check finds a file left behind by a
\* failed download.
C27_FailedDownloadLeavesNoFile ==
    life.downloaded = "failed"
    => ~file_exists(files, get_expected_filename(AttemptUrl))

\* x is one of the elements of seq
InSeq(seq, x) == \E k \in 1..Len(seq) : seq[k] = x

\* the files Summarize All has selected, right after the selection
Selected == IF life.op = "summarize_all" THEN life.queue ELSE <<>>

FileAttemptRecorded ==
    /\ life.handler \in {"summarize_all", "retry", "resummarize", "generate_summary"}
    /\ life.stage # "selected"
    /\ Appended # <<>>

====
